---- MODULE Spec2Model ----
(***************************************************************************)
(* Addison Sense & Dose (wearable variant), src/app.py.                    *)
(*                                                                         *)
(* The Streamlit script is re-executed from top to bottom on every widget  *)
(* interaction.  The session state that survives a rerun is the widget     *)
(* values and st.session_state["events"]; everything else is recomputed.   *)
(*                                                                         *)
(* Units.  Python floats are modelled by exact fixed-point numbers:        *)
(*   - doses in tenths of a milligram           (2.5 mg  = 25)             *)
(*   - temperature deviation in tenths of a degree (0.8 C = 8)             *)
(*   - the stress index as a fraction num/den, den = base_hr_sd            *)
(* An optional value (Python None) is the empty sequence << >>, a present  *)
(* value v is << v >>.                                                     *)
(***************************************************************************)
EXTENDS Integers, Sequences, FiniteSets, TLC

VARIABLES
    \* ---- widget values (inputs of one script run)
    daily_hc_mg, base_hr, base_hr_sd, base_temp_dev,
    vomit, severe_flags, use_wearable, simulate,
    \* ---- the vitals file on disk, as read_vitals_json would return it
    vitals_file,
    \* ---- values computed by the last script run
    vitals, stress_index, stress_parts, stress_metric, notices,
    alert_level, reasons, factor, immediate_bolus, follow_up, advice,
    log_pressed, pc,
    \* ---- st.session_state["events"]
    events,
    \* ---- dose history section (lines 316-337)
    now, tz_skew, last_dose_time, last_dose_mg, additional_recent,
    last_doses, warnings, hpc,
    \* ---- pk_predict_conc call (lines 303-314)
    pk_doses, pk_t_eval, pk_ka, pk_ke, pk_conc, kpc

inputVars == <<daily_hc_mg, base_hr, base_hr_sd, base_temp_dev,
               vomit, severe_flags, use_wearable, simulate>>
runVars   == <<vitals, stress_index, stress_parts, stress_metric, notices,
               alert_level, reasons, factor, immediate_bolus, follow_up,
               advice, log_pressed, pc>>
histVars  == <<now, tz_skew, last_dose_time, last_dose_mg, additional_recent,
               last_doses, warnings, hpc>>
pkVars    == <<pk_doses, pk_t_eval, pk_ka, pk_ke, pk_conc, kpc>>
vars      == <<inputVars, vitals_file, runVars, events, histVars, pkVars>>

-----------------------------------------------------------------------------
(* Optional values                                                         *)
None == << >>

Some(v) == << v >>

IsNone(o) == o = << >>

Val(o) == o[1]

Max(a, b) == IF a >= b THEN a ELSE b

Min(a, b) == IF a <= b THEN a ELSE b

\* Python's round() of the exact fraction num/den (den > 0): to nearest,
\* a tie goes to the even integer.
PyRound(num, den) ==
    LET q == num \div den
        r == num % den
    IN  IF 2 * r < den THEN q
        ELSE IF 2 * r > den THEN q + 1
        ELSE IF q % 2 = 0 THEN q ELSE q + 1

-----------------------------------------------------------------------------
(* Thresholds of the decision logic                                        *)
HrTermWeight == 15
HrTermCap == 40
TempTermPerTenth == 4
TempTermCap == 40
HrvLow == 20
HrvPoints == 10
ScoreCap == 100
AmberStress == 50
AmberHr == 100
AmberSbp == 100
AmberTempDev == 8
Factor3TempDev == 10
Factor3Stress == 70
Factor3Hr == 110
Factor2TempDev == 6
Factor2Stress == 50
Factor2Hr == 100
BolusMin == 50
BolusMax == 200
DoseStep == 25
DailyMin == 50
DailyMax == 600
DefaultDaily == 200
DefaultBaseHr == 70
DefaultBaseHrSd == 8
DefaultBaseTempDev == 0

SevereNames == {"persistent_diarrhea", "cannot_tolerate_oral",
                "syncope_confusion", "very_low_bp"}

NoFlags == [f \in SevereNames |-> FALSE]

\* A fraction num/den (den > 0) compared with an integer.
FracGeq(x, k) == x.num >= k * x.den

\* int(x) for a fraction x >= 0.
FracInt(x) == x.num \div x.den

-----------------------------------------------------------------------------
(* compute_stress_index, lines 122-159.  Returns [score, parts]; score is   *)
(* the fraction num/den with den = base_hr_sd (den = 1 on the early return)*)
HrTermNoFloor(hr, b_hr, b_sd) ==
    \* the bug of dropping the max(0, .) floor on the z-score
    Min((hr - b_hr) * HrTermWeight, HrTermCap * b_sd)

HrTerm(hr, b_hr, b_sd) ==
    \* min(max(0, (hr - base_hr)/base_hr_sd) * 15, 40), times base_hr_sd
    Min(Max(0, hr - b_hr) * HrTermWeight, HrTermCap * b_sd)

TempTerm(tdev, b_tdev) ==
    \* min(max(0, tdev - base_temp_dev) * 40, 40); tdev in tenths
    Min(Max(0, tdev - b_tdev) * TempTermPerTenth, TempTermCap)

compute_stress_index(v, b_hr, b_sd, b_tdev) ==
    IF v = None
    THEN [score |-> [num |-> 0, den |-> 1], parts |-> << >>]
    ELSE
      LET hr   == Val(v).hr
          tdev == Val(v).temp_dev
          hrv  == Val(v).hrv
          hrOn   == ~IsNone(hr) /\ b_sd > 0
          tempOn == ~IsNone(tdev)
          hrvOn  == ~IsNone(hrv) /\ Val(hrv) < HrvLow
          s1 == IF hrOn THEN HrTerm(Val(hr), b_hr, b_sd) ELSE 0
          s2 == s1 + (IF tempOn THEN TempTerm(Val(tdev), b_tdev) * b_sd ELSE 0)
          s3 == s2 + (IF hrvOn THEN HrvPoints * b_sd ELSE 0)
          p1 == IF hrOn THEN <<"HR">> ELSE << >>
          p2 == p1 \o (IF tempOn THEN <<"Temp">> ELSE << >>)
          p3 == p2 \o (IF hrvOn THEN <<"HRV">> ELSE << >>)
      IN  [score |-> [num |-> Max(0, Min(ScoreCap * b_sd, s3)), den |-> b_sd],
           parts |-> p3]

-----------------------------------------------------------------------------
(* classify_alert, lines 161-192.  A reason is [rule, value]: value is the *)
(* number formatted into the text (0 for the two fixed RED texts).         *)
Reason(rule, value) == [rule |-> rule, value |-> value]

RedOral(vm, sf) ==
    vm \/ sf["persistent_diarrhea"] \/ sf["cannot_tolerate_oral"]

RedSevere(sf) == sf["syncope_confusion"] \/ sf["very_low_bp"]

AmberReasonsFirstOnly(v, si) ==
    \* the bug of chaining the four AMBER tests with elif: only the first
    \* matching rule leaves its reason
    LET hr   == Val(v).hr
        sbp  == Val(v).sbp
        tdev == Val(v).temp_dev
    IN  IF FracGeq(si, AmberStress) THEN <<Reason("stress", FracInt(si))>>
        ELSE IF ~IsNone(hr) /\ Val(hr) >= AmberHr
             THEN <<Reason("tachycardia", Val(hr))>>
        ELSE IF ~IsNone(sbp) /\ Val(sbp) < AmberSbp
             THEN <<Reason("low_sbp", Val(sbp))>>
        ELSE IF ~IsNone(tdev) /\ Val(tdev) >= AmberTempDev
             THEN <<Reason("fever", Val(tdev))>>
        ELSE << >>

AmberReasons(v, si) ==
    LET hr   == Val(v).hr
        sbp  == Val(v).sbp
        tdev == Val(v).temp_dev
    IN  (IF FracGeq(si, AmberStress)
            THEN <<Reason("stress", FracInt(si))>> ELSE << >>)
        \o (IF ~IsNone(hr) /\ Val(hr) >= AmberHr
            THEN <<Reason("tachycardia", Val(hr))>> ELSE << >>)
        \o (IF ~IsNone(sbp) /\ Val(sbp) < AmberSbp
            THEN <<Reason("low_sbp", Val(sbp))>> ELSE << >>)
        \o (IF ~IsNone(tdev) /\ Val(tdev) >= AmberTempDev
            THEN <<Reason("fever", Val(tdev))>> ELSE << >>)

classify_alert_amber_overrides(vm, sf, v, si) ==
    \* the bug of running the AMBER block without the `level != "RED"` guard
    LET red == (IF RedOral(vm, sf) THEN <<Reason("oral_absorption", 0)>> ELSE << >>)
               \o (IF RedSevere(sf) THEN <<Reason("severe", 0)>> ELSE << >>)
        amber == IF v # None THEN AmberReasons(v, si) ELSE << >>
    IN  [level |-> IF amber # << >> THEN "AMBER"
                   ELSE IF red # << >> THEN "RED" ELSE "GREEN",
         reasons |-> red \o amber]

classify_alert(vm, sf, v, si) ==
    LET red == (IF RedOral(vm, sf) THEN <<Reason("oral_absorption", 0)>> ELSE << >>)
               \o (IF RedSevere(sf) THEN <<Reason("severe", 0)>> ELSE << >>)
        level1 == IF red # << >> THEN "RED" ELSE "GREEN"
        amber == IF level1 # "RED" /\ v # None THEN AmberReasons(v, si) ELSE << >>
    IN  [level |-> IF amber # << >> THEN "AMBER" ELSE level1,
         reasons |-> red \o amber]

-----------------------------------------------------------------------------
(* sick_day_factor_from_wearable, lines 194-209                            *)
sick_day_factor_single_band(v, si, red) ==
    \* the bug of reusing the classifier's single >= 50 / >= 100 band
    IF red THEN 0
    ELSE IF v = None THEN 1
    ELSE
      LET hr   == Val(v).hr
          tdev == Val(v).temp_dev
      IN  IF (~IsNone(tdev) /\ Val(tdev) >= Factor2TempDev)
             \/ FracGeq(si, Factor2Stress)
             \/ (~IsNone(hr) /\ Val(hr) >= Factor2Hr)
          THEN 2
          ELSE 1

sick_day_factor_no_tachycardia(v, si, red) ==
    \* the bug of leaving heart rate out of both dosing bands
    IF red THEN 0
    ELSE IF v = None THEN 1
    ELSE
      LET tdev == Val(v).temp_dev
      IN  IF (~IsNone(tdev) /\ Val(tdev) >= Factor3TempDev)
             \/ FracGeq(si, Factor3Stress)
          THEN 3
          ELSE IF (~IsNone(tdev) /\ Val(tdev) >= Factor2TempDev)
             \/ FracGeq(si, Factor2Stress)
          THEN 2
          ELSE 1

sick_day_factor_from_wearable(v, si, red) ==
    IF red THEN 0
    ELSE IF v = None THEN 1
    ELSE
      LET hr   == Val(v).hr
          tdev == Val(v).temp_dev
      IN  IF (~IsNone(tdev) /\ Val(tdev) >= Factor3TempDev)
             \/ FracGeq(si, Factor3Stress)
             \/ (~IsNone(hr) /\ Val(hr) >= Factor3Hr)
          THEN 3
          ELSE IF (~IsNone(tdev) /\ Val(tdev) >= Factor2TempDev)
             \/ FracGeq(si, Factor2Stress)
             \/ (~IsNone(hr) /\ Val(hr) >= Factor2Hr)
          THEN 2
          ELSE 1

-----------------------------------------------------------------------------
(* Oral dose advice, lines 421-424.  Doses in tenths of a milligram.       *)
ImmediateBolusUnclamped(extra_today) ==
    \* the bug of leaving out the [5, 20] mg clamp
    PyRound(2 * extra_today, 125) * DoseStep

ImmediateBolus(extra_today) ==
    \* min(20, max(5, round(0.4 * extra_today / 2.5) * 2.5))
    Min(BolusMax, Max(BolusMin, PyRound(2 * extra_today, 125) * DoseStep))

DoseSplit(fac, usual_daily) ==
    LET extra_today == (fac - 1) * usual_daily
        ib == ImmediateBolus(extra_today)
    IN  [extra_today |-> extra_today,
         immediate_bolus |-> ib,
         follow_up |-> Max(0, extra_today - ib)]

-----------------------------------------------------------------------------
(* Vitals loading, lines 260-269.  `file` is what read_vitals_json returns *)
(* for the file on disk (None when it is missing or unreadable), `drawn`   *)
(* what simulate_vitals returns in this run.                               *)
LoadVitals(uw, sim, file, drawn) ==
    IF sim THEN drawn ELSE IF uw THEN file ELSE None

Notices(uw, file, v) ==
    (IF uw /\ file = None THEN {"vitals_unreadable"} ELSE {})
    \cup (IF v = None THEN {"no_wearable_data"} ELSE {})

-----------------------------------------------------------------------------
(* Session log, lines 439-463                                              *)
DoseText(level, fac, ib, fu) ==
    IF level # "RED" /\ fac > 1
    THEN [kind |-> "oral", bolus |-> Val(ib), rest |-> Max(0, Val(fu))]
    ELSE IF level = "RED"
    THEN [kind |-> "parenteral_100", bolus |-> 0, rest |-> 0]
    ELSE [kind |-> "no_extra", bolus |-> 0, rest |-> 0]

Field(v, f) == IF v = None THEN None ELSE Val(v)[f]

LogEvent(level, si, v, ib, fu, fac, rs) ==
    [alert |-> level,
     stress_index |-> FracInt(si),
     hr |-> Field(v, "hr"),
     hrv |-> Field(v, "hrv"),
     temp_dev |-> Field(v, "temp_dev"),
     sbp |-> Field(v, "sbp"),
     dose_advice |-> DoseText(level, fac, ib, fu),
     reasons |-> rs]

AppendEventAtFront(evts, e) ==
    \* the bug of inserting the new entry at the head of the list
    <<e>> \o evts

AppendEvent(evts, e) == Append(evts, e)

-----------------------------------------------------------------------------
(* One execution of the script's alert / dose / log sections, lines        *)
(* 260-296 and 386-466, on widget values w, with `file` on disk, `drawn`   *)
(* from the simulator and the log button pressed or not.                   *)
RunScript(w, file, drawn, pressed) ==
    LET v   == LoadVitals(w.use_wearable, w.simulate, file, drawn)
        csi == compute_stress_index(v, w.base_hr, w.base_hr_sd, w.base_temp_dev)
        ca  == classify_alert(w.vomit, w.severe_flags, v, csi.score)
        fac == sick_day_factor_from_wearable(v, csi.score, ca.level = "RED")
        split == DoseSplit(fac, w.daily_hc_mg)
        oral_split == ca.level # "RED" /\ fac > 1
        \* immediate_bolus / follow_up are unbound names unless the split ran;
        \* the log handler binds an unbound one to 0.0 (lines 441-448)
        ib == IF oral_split THEN Some(split.immediate_bolus)
              ELSE IF pressed THEN Some(0) ELSE None
        fu == IF oral_split THEN Some(split.follow_up)
              ELSE IF pressed THEN Some(0) ELSE None
    IN  /\ daily_hc_mg' = w.daily_hc_mg
        /\ base_hr' = w.base_hr
        /\ base_hr_sd' = w.base_hr_sd
        /\ base_temp_dev' = w.base_temp_dev
        /\ vomit' = w.vomit
        /\ severe_flags' = w.severe_flags
        /\ use_wearable' = w.use_wearable
        /\ simulate' = w.simulate
        /\ vitals' = v
        /\ notices' = Notices(w.use_wearable, file, v)
        /\ stress_index' = csi.score
        /\ stress_parts' = csi.parts
        /\ stress_metric' = FracInt(csi.score)
        /\ alert_level' = ca.level
        /\ reasons' = ca.reasons
        /\ factor' = fac
        /\ advice' = IF ca.level = "RED" THEN "PARENTERAL"
                     ELSE IF fac <= 1 THEN "ORAL_NO_EXTRA" ELSE "ORAL_SPLIT"
        /\ immediate_bolus' = ib
        /\ follow_up' = fu
        /\ log_pressed' = pressed
        /\ pc' = "done"
        /\ events' = IF pressed
                     THEN AppendEvent(events,
                              LogEvent(ca.level, csi.score, v, ib, fu, fac, ca.reasons))
                     ELSE events

Widgets ==
    [daily_hc_mg |-> daily_hc_mg, base_hr |-> base_hr, base_hr_sd |-> base_hr_sd,
     base_temp_dev |-> base_temp_dev, vomit |-> vomit, severe_flags |-> severe_flags,
     use_wearable |-> use_wearable, simulate |-> simulate]

-----------------------------------------------------------------------------
(* Dose history, lines 316-337.                                            *)
(*                                                                         *)
(* A whitespace-separated part of the free-text field is modelled by what  *)
(* the two parsers see in it: `colon` is the list str.split(":") yields,   *)
(* each piece << n >> when int() accepts it and << >> when it raises;      *)
(* `float` is << tenths of mg >> when float() accepts the part and << >>   *)
(* when it raises.  A chunk is the list chunk.split() yields; the empty    *)
(* list is a chunk that is blank after strip().                            *)
Part(colon, flt) == [colon |-> colon, float |-> flt]

P_0800 == Part(<<Some(8), Some(0)>>, None)          \* "08:00"
P_1145 == Part(<<Some(11), Some(45)>>, None)        \* "11:45"
P_2330 == Part(<<Some(23), Some(30)>>, None)        \* "23:30"
P_2500 == Part(<<Some(25), Some(0)>>, None)         \* "25:00"
P_0860 == Part(<<Some(8), Some(60)>>, None)         \* "08:60"
P_8    == Part(<<Some(8)>>, Some(80))               \* "8"
P_10   == Part(<<Some(10)>>, Some(100))             \* "10"
P_0    == Part(<<Some(0)>>, Some(0))                \* "0"
P_abc  == Part(<<None>>, None)                      \* "abc"

Chunks ==
    { << >>,                     \* ""            blank, skipped by `continue`
      <<P_0800, P_10>>,          \* "08:00 10"
      <<P_1145, P_10>>,          \* "11:45 10"
      <<P_2330, P_10>>,          \* "23:30 10"
      <<P_0800, P_0>>,           \* "08:00 0"
      <<P_2500, P_10>>,          \* "25:00 10"
      <<P_0860, P_10>>,          \* "08:60 10"
      <<P_8, P_10>>,             \* "8 10"
      <<P_0800, P_abc>>,         \* "08:00 abc"
      <<P_2500, P_abc>>,         \* "25:00 abc"
      <<P_0800>>,                \* "08:00"
      <<P_0800, P_10, P_10>> }   \* "08:00 10 10"

\* parse_time_str, lines 23-28: minutes since midnight, or None.
parse_time_str(tstr) ==
    LET c == tstr.colon
    IN  IF Len(c) # 2 THEN None                      \* unpacking h, m raises
        ELSE IF IsNone(c[1]) \/ IsNone(c[2]) THEN None  \* int() raises
        ELSE IF Val(c[1]) \notin 0..23 \/ Val(c[2]) \notin 0..59
             THEN None                               \* time() raises
        ELSE Some(Val(c[1]) * 60 + Val(c[2]))

\* datetime.combine(today, ti).replace(tzinfo=TZ) <= now.  replace() gives
\* the wall-clock time the zone's first (local mean time) offset, now()
\* carries the offset in force; skew is the difference in minutes.
NotAfterNow(ti, t_now, skew) == ti + skew <= t_now

\* The outcome of one chunk of the loop, lines 324-337:
\* [dose: the entry appended, if any; warned: st.warning was called].
ParseChunk(chunk, t_now, skew) ==
    IF Len(chunk) = 0 THEN [dose |-> None, warned |-> FALSE]
    ELSE IF Len(chunk) # 2 THEN [dose |-> None, warned |-> TRUE]   \* unpacking raises
    ELSE
      LET ti == parse_time_str(chunk[1])
          mg == chunk[2].float
      IN  IF IsNone(mg) THEN [dose |-> None, warned |-> TRUE]      \* float() raises
          ELSE IF IsNone(ti) THEN [dose |-> None, warned |-> FALSE]  \* `if ti:` is false
          ELSE IF NotAfterNow(Val(ti), t_now, skew) /\ Val(mg) > 0
          THEN [dose |-> Some([time |-> Val(ti), mg |-> Val(mg)]), warned |-> FALSE]
          ELSE [dose |-> None, warned |-> FALSE]

RECURSIVE ParseLoop(_, _, _, _, _, _)
\* The for loop over additional_recent.split(";"), from chunk i on.
ParseLoop(chunks, i, doses, warns, t_now, skew) ==
    IF i > Len(chunks) THEN [doses |-> doses, warnings |-> warns]
    ELSE
      LET r == ParseChunk(chunks[i], t_now, skew)
      IN  ParseLoop(chunks, i + 1,
                    IF IsNone(r.dose) THEN doses ELSE Append(doses, Val(r.dose)),
                    IF r.warned THEN Append(warns, i) ELSE warns,
                    t_now, skew)

-----------------------------------------------------------------------------
(* pk_predict_conc, lines 303-314.                                         *)
(*                                                                         *)
(* Times are in ticks and the two rate constants in halvings per tick, so  *)
(* exp(-k * dt) is the exact power of two 2^(-k*dt) and                    *)
(* ka / (ka - ke) is the exact fraction ka_h / (ka_h - ke_h).  Every value *)
(* is carried as an integer numerator over the positive denominator        *)
(* Vd * 2^PkExpBias * |ka - ke|, which is the same for every dose of one   *)
(* call.  abs(ka - ke) < 1e-6 is ka = ke on this grid.                     *)
Vd == 35

MaxTick == 4

KaRates == {1, 2, 3}

KeRates == {1, 2}

PkExpBias == 3 * MaxTick

PkDoseAmounts == {5, 10}

RECURSIVE Pow2(_)
Pow2(n) == IF n <= 0 THEN 1 ELSE 2 * Pow2(n - 1)

\* exp(-k * dt), times 2^PkExpBias
ExpNeg(k, dt) == Pow2(PkExpBias - k * dt)

Sign(x) == IF x > 0 THEN 1 ELSE IF x < 0 THEN -1 ELSE 0

Abs(x) == IF x < 0 THEN -x ELSE x

\* The common denominator of one call's numerators.
PkDenominator(ka, ke) == Vd * Pow2(PkExpBias) * Abs(ka - ke)

\* (dose * ka) / (Vd * (ka - ke)) * (exp(-ke*dt) - exp(-ka*dt)), as the
\* numerator over Vd * 2^PkExpBias * |ka - ke|
BatemanTerm(dose, dt, ka, ke) ==
    dose * ka * Sign(ka - ke) * (ExpNeg(ke, dt) - ExpNeg(ka, dt))

\* The contribution of one dose: [ok: no exception; num: the value added].
PkDoseTermNoSingularityGuard(dose, dt, ka, ke) ==
    \* the loop body without the abs(ka - ke) < 1e-6 test: the division by
    \* ka - ke = 0 raises ZeroDivisionError
    IF dt <= 0 THEN [ok |-> TRUE, num |-> 0]
    ELSE IF ka = ke THEN [ok |-> FALSE, num |-> 0]
    ELSE [ok |-> TRUE, num |-> Max(BatemanTerm(dose, dt, ka, ke), 0)]

PkDoseTerm(dose, dt, ka, ke) ==
    IF dt <= 0 THEN [ok |-> TRUE, num |-> 0]
    ELSE IF ka = ke THEN [ok |-> TRUE, num |-> 0]
    ELSE [ok |-> TRUE, num |-> Max(BatemanTerm(dose, dt, ka, ke), 0)]

RECURSIVE pk_loop(_, _, _, _, _, _)
pk_loop(doses, i, conc, t_eval, ka, ke) ==
    IF i > Len(doses) THEN [ok |-> TRUE, num |-> conc]
    ELSE
      LET t == PkDoseTerm(doses[i].dose, t_eval - doses[i].t_admin, ka, ke)
      IN  IF ~t.ok THEN [ok |-> FALSE, num |-> 0]
          ELSE pk_loop(doses, i + 1, conc + t.num, t_eval, ka, ke)

pk_predict_conc(doses, t_eval, ka, ke) == pk_loop(doses, 1, 0, t_eval, ka, ke)

-----------------------------------------------------------------------------
(* Input sets                                                              *)
MaxEvents == 2
MaxChunks == 2
MaxDoses == 2

Vitals(hr, hrv, tdev, sbp) ==
    Some([hr |-> hr, hrv |-> hrv, temp_dev |-> tdev, sbp |-> sbp])

HrValues == {None} \cup {Some(x) : x \in {60, 80, 95, 99, 100, 109, 110}}

TempDevValues == {None} \cup {Some(x) : x \in {-5, -2, 5, 6, 7, 8, 9, 10}}

HrvValues == {None, Some(19), Some(20)}

SbpValues == {None, Some(99), Some(100)}

\* (base_hr, base_hr_sd, base_temp_dev) within the sidebar's ranges,
\* lines 233-235
Baselines == {<<70, 8, 0>>, <<40, 1, -10>>, <<40, 8, -10>>, <<120, 30, 10>>}

EvalFiles ==
    {None} \cup {Vitals(h, v, t, s) :
                    h \in HrValues, v \in HrvValues, t \in TempDevValues, s \in SbpValues}

FlagSets == [SevereNames -> BOOLEAN]

\* every value the daily-dose widget steps through, lines 220-221
DailyDoses == {d \in DailyMin..DailyMax : d % DoseStep = 0}

DoseFiles ==
    {None, Vitals(Some(72), Some(45), Some(1), None),
     Vitals(Some(104), Some(18), Some(9), None),
     Vitals(Some(95), Some(30), Some(6), Some(120)),
     Vitals(Some(112), None, None, Some(95)),
     Vitals(None, None, Some(10), None),
     Vitals(Some(88), Some(15), None, Some(92))}

\* what simulate_vitals can return: hr >= 45, hrv >= 5, temp_dev >= 0, no sbp
SimDraws == {Vitals(Some(62), Some(41), Some(2), None)}

SessionFiles == {None, Vitals(Some(104), Some(18), Some(9), None)}

SessionDaily == {DefaultDaily, DailyMin}

SessionSevere == {"syncope_confusion"}

NowTimes == {510, 720}

\* minutes between the offset in force (CET +60, CEST +120) and the zone's
\* local-mean-time offset (+18 or +20 depending on the tz database)
TzSkews == {40, 42, 100, 102}

LastDoseTimes == {480}

LastDoseMgs == {0, 50}

RECURSIVE SeqsUpTo(_, _)
SeqsUpTo(S, n) ==
    IF n = 0 THEN {<< >>}
    ELSE LET shorter == SeqsUpTo(S, n - 1)
         IN  shorter \cup {Append(q, x) : q \in {r \in shorter : Len(r) = n - 1}, x \in S}

PkDoseSet == [t_admin : 0..MaxTick, dose : PkDoseAmounts]

-----------------------------------------------------------------------------
(* Initial states                                                          *)
RunUnset(p) ==
    /\ vitals = None
    /\ stress_index = [num |-> 0, den |-> 1]
    /\ stress_parts = << >>
    /\ stress_metric = 0
    /\ notices = {}
    /\ alert_level = "GREEN"
    /\ reasons = << >>
    /\ factor = 1
    /\ immediate_bolus = None
    /\ follow_up = None
    /\ advice = "NONE"
    /\ log_pressed = FALSE
    /\ pc = p
    /\ events = << >>

\* default_profile and the widgets' default values, lines 31-45, 217-277
DefaultWidgets ==
    /\ daily_hc_mg = DefaultDaily
    /\ base_hr = DefaultBaseHr
    /\ base_hr_sd = DefaultBaseHrSd
    /\ base_temp_dev = DefaultBaseTempDev
    /\ vomit = FALSE
    /\ severe_flags = NoFlags
    /\ use_wearable = TRUE
    /\ simulate = FALSE

HistOff ==
    /\ now = 720
    /\ tz_skew = 42
    /\ last_dose_time = 480
    /\ last_dose_mg = 0
    /\ additional_recent = << >>
    /\ last_doses = << >>
    /\ warnings = << >>
    /\ hpc = "off"

PkOff ==
    /\ pk_doses = << >>
    /\ pk_t_eval = 0
    /\ pk_ka = 1
    /\ pk_ke = 1
    /\ pk_conc = [ok |-> TRUE, num |-> 0]
    /\ kpc = "off"

\* A browser session opening the page.
Init ==
    /\ DefaultWidgets
    /\ vitals_file \in SessionFiles
    /\ RunUnset("ready")
    /\ HistOff
    /\ PkOff

\* One evaluation on any symptom flags, vitals and baselines.
InitEval ==
    /\ daily_hc_mg = DefaultDaily
    /\ \E b \in Baselines :
          base_hr = b[1] /\ base_hr_sd = b[2] /\ base_temp_dev = b[3]
    /\ vomit \in BOOLEAN
    /\ severe_flags \in FlagSets
    /\ use_wearable \in BOOLEAN
    /\ simulate = FALSE
    /\ vitals_file \in (IF use_wearable THEN EvalFiles ELSE {None})
    /\ RunUnset("ready")
    /\ HistOff
    /\ PkOff

\* One evaluation on any daily dose.
InitDose ==
    /\ daily_hc_mg \in DailyDoses
    /\ base_hr = DefaultBaseHr
    /\ base_hr_sd = DefaultBaseHrSd
    /\ base_temp_dev = DefaultBaseTempDev
    /\ vomit \in BOOLEAN
    /\ severe_flags = NoFlags
    /\ use_wearable = TRUE
    /\ simulate \in BOOLEAN
    /\ vitals_file \in DoseFiles
    /\ RunUnset("ready")
    /\ HistOff
    /\ PkOff

\* The dose-history section on any free-text field.
InitHist ==
    /\ DefaultWidgets
    /\ vitals_file = None
    /\ RunUnset("off")
    /\ now \in NowTimes
    /\ tz_skew \in TzSkews
    /\ last_dose_time \in LastDoseTimes
    /\ last_dose_mg \in LastDoseMgs
    /\ additional_recent \in SeqsUpTo(Chunks, MaxChunks)
    /\ last_doses = << >>
    /\ warnings = << >>
    /\ hpc = "ready"
    /\ PkOff

\* pk_predict_conc on any dose list, evaluation time and rate constants.
InitPk ==
    /\ DefaultWidgets
    /\ vitals_file = None
    /\ RunUnset("off")
    /\ HistOff
    /\ pk_doses \in SeqsUpTo(PkDoseSet, MaxDoses)
    /\ pk_t_eval \in 0..MaxTick
    /\ pk_ka \in KaRates
    /\ pk_ke \in KeRates
    /\ pk_conc = [ok |-> TRUE, num |-> 0]
    /\ kpc = "ready"

-----------------------------------------------------------------------------
(* Actions                                                                 *)
Rerun(w, pressed) ==
    /\ \E drawn \in SimDraws : RunScript(w, vitals_file, drawn, pressed)
    /\ UNCHANGED <<vitals_file, histVars, pkVars>>

\* the first execution of the script when the page is opened
FirstRun == pc = "ready" /\ Rerun(Widgets, FALSE)

\* checkbox "Braken of niet binnenhouden", line 273
ToggleVomit ==
    pc = "done" /\ Rerun([Widgets EXCEPT !.vomit = ~vomit], FALSE)

\* the severe-symptom checkboxes, lines 274-277
ToggleSevere ==
    /\ pc = "done"
    /\ \E f \in SessionSevere :
          Rerun([Widgets EXCEPT !.severe_flags[f] = ~severe_flags[f]], FALSE)

\* number_input "dagdosis", lines 220-221
SetDailyDose ==
    /\ pc = "done"
    /\ \E d \in SessionDaily \ {daily_hc_mg} :
          Rerun([Widgets EXCEPT !.daily_hc_mg = d], FALSE)

\* checkbox "Simuleer vitals", line 267
ToggleSimulate ==
    pc = "done" /\ Rerun([Widgets EXCEPT !.simulate = ~simulate], FALSE)

\* button "Log: advies toevoegen aan logboek", line 439
PressLog ==
    pc = "done" /\ Len(events) < MaxEvents /\ Rerun(Widgets, TRUE)

\* the wearable (or its absence) changes the file between two runs
WearableWrites ==
    /\ pc = "done"
    /\ \E f \in SessionFiles \ {vitals_file} : vitals_file' = f
    /\ UNCHANGED <<inputVars, runVars, events, histVars, pkVars>>

\* lines 316-337: the last-dose entry, then the free-text loop
BuildHistory ==
    /\ hpc = "ready"
    /\ LET first == IF NotAfterNow(last_dose_time, now, tz_skew) /\ last_dose_mg > 0
                    THEN <<[time |-> last_dose_time, mg |-> last_dose_mg]>>
                    ELSE << >>
           r == ParseLoop(additional_recent, 1, first, << >>, now, tz_skew)
       IN  /\ last_doses' = r.doses
           /\ warnings' = r.warnings
    /\ hpc' = "done"
    /\ UNCHANGED <<now, tz_skew, last_dose_time, last_dose_mg, additional_recent>>
    /\ UNCHANGED <<inputVars, vitals_file, runVars, events, pkVars>>

\* one call of pk_predict_conc, lines 369-371
PkPredict ==
    /\ kpc = "ready"
    /\ pk_conc' = pk_predict_conc(pk_doses, pk_t_eval, pk_ka, pk_ke)
    /\ kpc' = "done"
    /\ UNCHANGED <<pk_doses, pk_t_eval, pk_ka, pk_ke>>
    /\ UNCHANGED <<inputVars, vitals_file, runVars, events, histVars>>

Next ==
    \/ FirstRun
    \/ ToggleVomit
    \/ ToggleSevere
    \/ SetDailyDose
    \/ ToggleSimulate
    \/ PressLog
    \/ WearableWrites

Spec == Init /\ [][Next]_vars

SpecEval == InitEval /\ [][FirstRun]_vars

SpecDose == InitDose /\ [][FirstRun]_vars

SpecHist == InitHist /\ [][BuildHistory]_vars

SpecPk == InitPk /\ [][PkPredict]_vars

-----------------------------------------------------------------------------
(* Properties                                                              *)

AnyRedFlag == vomit \/ \E f \in SevereNames : severe_flags[f]

Present(f) == vitals # None /\ ~IsNone(Val(vitals)[f])

Get(f) == Val(Val(vitals)[f])

\* C1: whenever vomiting or any of the four severe-symptom flags is set the
\* returned level is RED, whatever the vitals and the stress index are: no
\* AMBER rule lowers a RED level.
C1_RedDominant ==
    pc = "done" => (AnyRedFlag => alert_level = "RED")

C1_Witness ==
    /\ pc = "done"
    /\ vomit
    /\ FracGeq(stress_index, AmberStress)
    /\ Present("hr") /\ Get("hr") >= AmberHr
    /\ Present("sbp") /\ Get("sbp") < AmberSbp
    /\ Present("temp_dev") /\ Get("temp_dev") >= AmberTempDev
    /\ alert_level = "RED"

\* C2: whenever the oral branch computes a split (factor 2 or 3), for every
\* daily dose from 5 to 60 mg in 2.5 mg steps, bolus + follow-up is exactly
\* (factor - 1) * daily dose, the bolus is a multiple of 2.5 mg within
\* [5, 20] mg, and the follow-up is not negative.
C2_DoseSplit ==
    (pc = "done" /\ advice = "ORAL_SPLIT") =>
        /\ factor \in {2, 3}
        /\ ~IsNone(immediate_bolus) /\ ~IsNone(follow_up)
        /\ Val(immediate_bolus) + Val(follow_up) = (factor - 1) * daily_hc_mg
        /\ Val(immediate_bolus) >= 50 /\ Val(immediate_bolus) <= 200
        /\ Val(immediate_bolus) % 25 = 0
        /\ Val(follow_up) >= 0

C2_Witness ==
    /\ pc = "done"
    /\ advice = "ORAL_SPLIT"
    /\ factor = 2
    /\ daily_hc_mg = 50
    /\ immediate_bolus = Some(50)
    /\ follow_up = Some(0)

C3_Band3 ==
    \/ (Present("temp_dev") /\ Get("temp_dev") >= 10)
    \/ FracGeq(stress_index, 70)
    \/ (Present("hr") /\ Get("hr") >= 110)

C3_Band2 ==
    \/ (Present("temp_dev") /\ Get("temp_dev") >= 6)
    \/ FracGeq(stress_index, 50)
    \/ (Present("hr") /\ Get("hr") >= 100)

\* C3: the factor is 0 exactly when the level is RED; otherwise 3 when temp
\* deviation >= 1.0 or stress index >= 70 or heart rate >= 110; otherwise 2
\* when temp deviation >= 0.6 or stress index >= 50 or heart rate >= 100;
\* otherwise 1.  An absent vitals field triggers no band.
C3_FactorBands ==
    pc = "done" =>
        /\ factor \in {0, 1, 2, 3}
        /\ (factor = 0) <=> (alert_level = "RED")
        /\ alert_level # "RED" =>
              factor = (IF C3_Band3 THEN 3 ELSE IF C3_Band2 THEN 2 ELSE 1)

\* Scenario 4: stress index 72, heart rate 95, no RED flag
C3_Witness ==
    /\ pc = "done"
    /\ ~AnyRedFlag
    /\ stress_metric = 72
    /\ Present("hr") /\ Get("hr") = 95
    /\ alert_level = "AMBER"
    /\ reasons = <<Reason("stress", 72)>>
    /\ factor = 3

\* C4: when no vitals were loaded (no source, or the file read failed, and
\* simulation off) the stress index shown is not the number 0: the absent
\* signal stays distinguishable from a measured index of 0.
C4_AbsentIsNotZero ==
    (pc = "done" /\ ~simulate /\ vitals = None) => stress_metric # 0

C5_ValidTime(part) ==
    /\ Len(part.colon) = 2
    /\ ~IsNone(part.colon[1]) /\ ~IsNone(part.colon[2])
    /\ Val(part.colon[1]) \in 0..23
    /\ Val(part.colon[2]) \in 0..59

C5_Malformed(chunk) ==
    /\ Len(chunk) > 0
    /\ \/ Len(chunk) # 2
       \/ IsNone(chunk[2].float)
       \/ ~C5_ValidTime(chunk[1])

\* C5: every malformed chunk of the free-text field (not exactly two parts,
\* a non-numeric mg, or a time that is no valid HH:MM) gets a warning.
C5_MalformedWarned ==
    hpc = "done" =>
        \A i \in 1..Len(additional_recent) :
            C5_Malformed(additional_recent[i]) =>
                \E k \in 1..Len(warnings) : warnings[k] = i

C6_HrPoints ==
    IF ~Present("hr") \/ Get("hr") <= base_hr THEN 0
    ELSE IF (Get("hr") - base_hr) * 15 >= 40 * base_hr_sd
         THEN 40 * base_hr_sd
         ELSE (Get("hr") - base_hr) * 15

C6_TempPoints ==
    IF ~Present("temp_dev") \/ Get("temp_dev") <= base_temp_dev THEN 0
    ELSE IF (Get("temp_dev") - base_temp_dev) * 4 >= 40 THEN 40
         ELSE (Get("temp_dev") - base_temp_dev) * 4

C6_HrvPoints == IF Present("hrv") /\ Get("hrv") < 20 THEN 10 ELSE 0

\* C6: the score is within [0, 100] and is the sum of the heart-rate term
\* min(max(0, (hr - base)/sd) * 15, 40), the temperature term
\* min(max(0, dev - base_dev) * 40, 40) and 10 for HRV < 20, an absent field
\* adding nothing; heart rate at or below baseline adds 0.
C6_StressIndex ==
    pc = "done" =>
        /\ stress_index.num >= 0
        /\ stress_index.num <= 100 * stress_index.den
        /\ stress_index.num * base_hr_sd =
              (C6_HrPoints + (C6_TempPoints + C6_HrvPoints) * base_hr_sd)
              * stress_index.den

C6_Witness ==
    /\ pc = "done"
    /\ Present("hr") /\ Get("hr") < base_hr
    /\ ~Present("temp_dev")
    /\ Present("hrv") /\ Get("hrv") < 20
    /\ stress_metric = 10

\* C7: the call raises nothing and returns a value >= 0; it returns exactly
\* 0 when every dose is given at or after the evaluation time, and when ka
\* equals ke.
C7_PkPredict ==
    kpc = "done" =>
        /\ pk_conc.ok
        /\ pk_conc.num >= 0
        /\ (\A i \in 1..Len(pk_doses) : pk_doses[i].t_admin >= pk_t_eval)
              => pk_conc.num = 0
        /\ pk_ka = pk_ke => pk_conc.num = 0

C7_Witness ==
    /\ kpc = "done"
    /\ Len(pk_doses) = 2
    /\ pk_doses[1].t_admin = pk_t_eval
    /\ pk_doses[2].t_admin > pk_t_eval
    /\ pk_ka # pk_ke
    /\ pk_conc = [ok |-> TRUE, num |-> 0]

C8_Advice ==
    IF alert_level = "RED"
    THEN [kind |-> "parenteral_100", bolus |-> 0, rest |-> 0]
    ELSE IF factor > 1
    THEN [kind |-> "oral", bolus |-> Val(immediate_bolus), rest |-> Val(follow_up)]
    ELSE [kind |-> "no_extra", bolus |-> 0, rest |-> 0]

\* C8: a run with the log button pressed appends exactly one entry at the
\* end of the log, carrying that run's alert level and dose advice
\* (parenteral 100 mg when RED, bolus / follow-up when factor > 1, otherwise
\* no extra dose); every other step leaves the log as it was.
C8_LogAppendOnly ==
    [][ /\ PressLog =>
            /\ Len(events') = Len(events) + 1
            /\ SubSeq(events', 1, Len(events)) = events
            /\ events'[Len(events')].alert = alert_level'
            /\ events'[Len(events')].dose_advice = C8_Advice'
            /\ events'[Len(events')].reasons = reasons'
        /\ ~PressLog => events' = events ]_vars

C8_Witness ==
    /\ log_pressed
    /\ Len(events) = 2
    /\ events[1].alert = "RED"
    /\ events[1].dose_advice.kind = "parenteral_100"
    /\ events[2].alert = "AMBER"
    /\ events[2].dose_advice.kind = "oral"

C9_RuleOrder == <<"stress", "tachycardia", "low_sbp", "fever">>

C9_Matched(rule) ==
    CASE rule = "stress" -> vitals # None /\ FracGeq(stress_index, 50)
      [] rule = "tachycardia" -> Present("hr") /\ Get("hr") >= 100
      [] rule = "low_sbp" -> Present("sbp") /\ Get("sbp") < 100
      [] rule = "fever" -> Present("temp_dev") /\ Get("temp_dev") >= 8

C9_Count(rule) == Cardinality({i \in 1..Len(reasons) : reasons[i].rule = rule})

C9_Rank(rule) == CHOOSE k \in 1..4 : C9_RuleOrder[k] = rule

\* C9: the level is GREEN iff there is no reason; without a RED trigger the
\* list holds one reason per matched AMBER rule, in the order stress index,
\* heart rate, systolic pressure, temperature deviation, and the level is
\* AMBER iff one matched; with a RED trigger the level is RED and the list
\* holds only the one or two RED reasons.
C9_Reasons ==
    pc = "done" =>
        /\ (alert_level = "GREEN") <=> (reasons = << >>)
        /\ ~AnyRedFlag =>
              /\ \A k \in 1..4 :
                    C9_Count(C9_RuleOrder[k])
                       = (IF C9_Matched(C9_RuleOrder[k]) THEN 1 ELSE 0)
              /\ \A i \in 1..Len(reasons) :
                    reasons[i].rule \in {"stress", "tachycardia", "low_sbp", "fever"}
              /\ \A i, j \in 1..Len(reasons) :
                    i < j => C9_Rank(reasons[i].rule) < C9_Rank(reasons[j].rule)
              /\ (alert_level = "AMBER") <=> (reasons # << >>)
        /\ AnyRedFlag =>
              /\ alert_level = "RED"
              /\ Len(reasons) \in {1, 2}
              /\ \A i \in 1..Len(reasons) :
                    reasons[i].rule \in {"oral_absorption", "severe"}

C9_Witness ==
    /\ pc = "done"
    /\ ~AnyRedFlag
    /\ alert_level = "AMBER"
    /\ Len(reasons) = 4
    /\ reasons[1].rule = "stress"
    /\ reasons[4].rule = "fever"

\* C10: without a RED flag, a level of AMBER reached through the stress
\* index, the heart rate or the temperature deviation comes with a factor
\* of at least 2; AMBER with factor 1 happens only when low systolic
\* pressure is the sole AMBER reason.
C10_ClassifierDoseAgree ==
    (pc = "done" /\ alert_level = "AMBER") =>
        /\ (\E i \in 1..Len(reasons) :
               reasons[i].rule \in {"stress", "tachycardia", "fever"})
              => factor >= 2
        /\ factor = 1 =>
              (Len(reasons) = 1 /\ reasons[1].rule = "low_sbp")

C10_Witness ==
    /\ pc = "done"
    /\ alert_level = "AMBER"
    /\ Len(reasons) = 1
    /\ reasons[1].rule = "tachycardia"
    /\ Get("hr") < 110
    /\ ~FracGeq(stress_index, 50)
    /\ factor = 2

====
